---- MODULE Spec2Model ----
(***************************************************************************)
(* Model of the Linera validator proxy (linera-service/src/proxy/main.rs)  *)
(* and of the storage abstractions it uses (linera-storage/src/lib.rs).    *)
(*                                                                         *)
(* The proxy is a state machine: ProxyContext::run builds a Proxy from the *)
(* configuration (Proxy::from_context) and, for the simple transports,     *)
(* serves messages with SimpleProxy::handle_message, which either answers  *)
(* from storage (try_local_message) or forwards to a shard                 *)
(* (try_proxy_message: connect, bounded send, bounded receive).            *)
(***************************************************************************)
EXTENDS Integers, Sequences, FiniteSets, TLC

VARIABLES
    context,    \* ProxyContext: the configuration the process was started with
    proxy,      \* the Proxy built by Proxy::from_context (NoProxy before / on failure)
    runPc,      \* position of ProxyContext::run
    storage,    \* the shared storage collaborator
    active,     \* the message-handling instances the server runs
    pc,         \* per instance: position inside handle_message
    msg,        \* per instance: the message being handled
    shard,      \* per instance: the shard resolved for the message
    inner,      \* per instance: Result of try_local_message / try_proxy_message
    result,     \* per instance: Option<RpcMessage> returned by handle_message
    trace,      \* per instance: the I/O operations performed for this message
    routes,     \* history: chain id -> shards a message of that chain was sent to
    malformedSeen, \* history: a message without chain id has been dropped
    server,     \* the server task started by spawn_server
    shutdown,   \* the shutdown signal (CancellationToken) has been raised
    silent,     \* environment: the shards that have stopped answering
    workers,    \* the number of worker threads of the executor
    caches,     \* ChainRuntimeContext: user_contracts and user_services
    locks,      \* per cache and lock shard of its DashMap: the task holding it
    calls,      \* per task: its call of get_user_contract / get_user_service
    inserts,    \* history: per cache and application id, the entries inserted
    chains,     \* per chain: its persistent state (description blob, active, saves)
    creates,    \* per task: its call of Storage::create_chain
    overlapped  \* history: chains that two create_chain calls worked on at once

\* The storage library: the code caches of the runtime context, create_chain
cacheVars == <<workers, caches, locks, calls, inserts>>
chainVars == <<chains, creates, overlapped>>
libVars == <<cacheVars, chainVars>>

\* The configuration, the position of run and what surrounds the handlers
cfgVars == <<context, proxy, runPc, server, shutdown, silent, libVars>>
handlerVars == <<pc, msg, shard, inner, result, trace>>
histVars == <<routes, malformedSeen>>
vars == <<context, proxy, runPc, storage, active, pc, msg, shard, inner, result,
          trace, routes, malformedSeen, server, shutdown, silent, workers, caches,
          locks, calls, inserts, chains, creates, overlapped>>

----------------------------------------------------------------------------
(* Bounds of the model *)
MaxShards == 2      \* shard lists of 1..MaxShards descriptors
MaxChain == 2       \* chain identifiers 1..MaxChain
MaxBlob == 2        \* blob contents 1..MaxBlob
MaxHash == 2        \* crypto hashes 1..MaxHash
MaxBatch == 2       \* longest list carried by a batch query
NumHandlers == 2    \* message-handling instances

(* Program constant: default of --send-timeout-ms / --recv-timeout-ms *)
DefaultTimeoutMs == 4000

Handlers == 1..NumHandlers
ChainIds == 1..MaxChain
BlobContents == 1..MaxBlob
Hashes == 1..MaxHash

NoChain == 0
NoShard == [host |-> 0, port |-> 0]

RECURSIVE SeqsUpTo(_, _)
SeqsUpTo(S, n) ==
    IF n = 0 THEN {<<>>}
    ELSE LET shorter == SeqsUpTo(S, n - 1)
         IN shorter \cup {Append(s, x) : s \in {t \in shorter : Len(t) = n - 1}, x \in S}

Range(s) == {s[i] : i \in DOMAIN s}

----------------------------------------------------------------------------
(* Data model: protocols, shard descriptors, RpcMessage *)

SimpleTransports == {"Tcp", "Udp"}
SimpleProtocols == {[family |-> "Simple", transport |-> t] : t \in SimpleTransports}
GrpcProtocol == [family |-> "Grpc", transport |-> "Grpc"]
Protocols == SimpleProtocols \cup {GrpcProtocol}

ShardList(n) == [i \in 1..n |-> [host |-> i, port |-> i]]

TimeoutPairs == {<<DefaultTimeoutMs, DefaultTimeoutMs>>,
                 <<DefaultTimeoutMs \div 4, DefaultTimeoutMs \div 2>>}

LocalKinds == {"VersionInfoQuery", "NetworkDescriptionQuery", "UploadBlob",
               "DownloadBlob", "DownloadConfirmedBlock", "DownloadCertificates",
               "BlobLastUsedBy", "MissingBlobIds"}

ChainAddressedKinds == {"BlockProposal", "LiteCertificate", "TimeoutCertificate",
                        "ConfirmedCertificate", "ValidatedCertificate",
                        "ChainInfoQuery", "CrossChainRequest",
                        "DownloadPendingBlob", "HandlePendingBlob"}

OtherKinds == {"Vote", "Error", "ChainInfoResponse", "VersionInfoResponse",
               "NetworkDescriptionResponse", "DownloadBlobResponse",
               "DownloadPendingBlobResponse", "BlobLastUsedByResponse",
               "MissingBlobIdsResponse", "DownloadConfirmedBlockResponse",
               "DownloadCertificatesResponse", "UploadBlobResponse"}

Msg(k, c, a) == [kind |-> k, chain |-> c, arg |-> a]

\* Option<RpcMessage>::None
None == Msg("None", NoChain, <<>>)

\* Blob::id(): the content-derived identifier of a blob
BlobIdOf(content) == content * 16 + 5
BlobIds == {BlobIdOf(c) : c \in BlobContents}

\* The payloads a client can put into a local message kind
LocalArgs(k) ==
    CASE k \in {"VersionInfoQuery", "NetworkDescriptionQuery"} -> {<<>>}
      [] k = "UploadBlob" -> {<<c>> : c \in BlobContents}
      [] k \in {"DownloadBlob", "BlobLastUsedBy"} -> {<<b>> : b \in BlobIds}
      [] k = "DownloadConfirmedBlock" -> {<<x>> : x \in Hashes}
      [] k = "DownloadCertificates" -> SeqsUpTo(Hashes, MaxBatch)
      [] k = "MissingBlobIds" -> SeqsUpTo(BlobIds, MaxBatch)

\* The messages a client can send to the proxy: local kinds with their payload,
\* chain-addressed kinds with a chain identifier, the remaining kinds with none
InboundMessages ==
    UNION {{Msg(k, NoChain, a) : a \in LocalArgs(k)} : k \in LocalKinds}
    \cup {Msg(k, c, <<>>) : k \in ChainAddressedKinds, c \in ChainIds}
    \cup {Msg(k, NoChain, <<>>) : k \in OtherKinds}

\* What a shard may answer to a forwarded message
ShardReplies == {Msg("ChainInfoResponse", NoChain, <<>>), Msg("Error", NoChain, <<>>)}

\* Result<T, E>
Ok(v) == [tag |-> "Ok", value |-> v, error |-> "none"]
Err(e) == [tag |-> "Err", value |-> None, error |-> e]
Pending == [tag |-> "Pending", value |-> None, error |-> "none"]

\* One I/O operation performed while handling a message; for an operation on a
\* shard, the transport it goes over and the deadline it is given (0: none)
IoWith(op, s, o, r, via, deadline) ==
    [op |-> op, shard |-> s, outcome |-> o, reply |-> r, via |-> via,
     deadline |-> deadline]

Io(op, s, o, r) == IoWith(op, s, o, r, "none", 0)

----------------------------------------------------------------------------
(* RpcMessage classification and shard assignment (linera-rpc) *)

is_local_message(m) == m.kind \in LocalKinds

target_chain_id(m) == IF m.kind \in ChainAddressedKinds THEN m.chain ELSE NoChain

\* Hash of a chain identifier used by the shard assignment
ChainHash(c) == c * 31 + 7

get_shard_id(shards, chain_id) == ChainHash(chain_id) % Len(shards)

get_shard_for(shards, chain_id) == shards[get_shard_id(shards, chain_id) + 1]

----------------------------------------------------------------------------
(* Storage collaborator (trait Storage) *)

NoDescription == 0
VersionInfo == 1

EmptyMap == [x \in {} |-> 0]

EmptyStorage ==
    [network_description |-> NoDescription,
     blobs |-> EmptyMap,
     blob_states |-> EmptyMap,
     confirmed_blocks |-> EmptyMap,
     certificates |-> EmptyMap]

\* A storage holding a network description, the state (but not the content) of
\* the first blob, the content and state of the last one, and the first block
PopulatedStorage ==
    [network_description |-> 1,
     blobs |-> [b \in {BlobIdOf(MaxBlob)} |-> MaxBlob],
     blob_states |-> [b \in {BlobIdOf(1), BlobIdOf(MaxBlob)} |-> 1],
     confirmed_blocks |-> [x \in {1} |-> x],
     certificates |-> [x \in {1} |-> x]]

InitStorages == {EmptyStorage, PopulatedStorage}

\* io = "error": the storage layer fails with a ViewError
read_network_description(st, io) ==
    IF io = "error" THEN Err("ViewError") ELSE Ok(st.network_description)

read_blob(st, blob_id, io) ==
    IF io = "error" THEN Err("ViewError")
    ELSE IF blob_id \in DOMAIN st.blobs THEN Ok(st.blobs[blob_id])
    ELSE Err("BlobsNotFound")

read_blob_state(st, blob_id, io) ==
    IF io = "error" THEN Err("ViewError")
    ELSE IF blob_id \in DOMAIN st.blob_states THEN Ok(st.blob_states[blob_id])
    ELSE Err("NotFound")

read_confirmed_block(st, hash, io) ==
    IF io = "error" THEN Err("ViewError")
    ELSE IF hash \in DOMAIN st.confirmed_blocks THEN Ok(st.confirmed_blocks[hash])
    ELSE Err("NotFound")

RECURSIVE FilterSeq(_, _)
FilterSeq(s, S) ==
    IF s = <<>> THEN <<>>
    ELSE IF s[1] \in S THEN <<s[1]>> \o FilterSeq(Tail(s), S)
    ELSE FilterSeq(Tail(s), S)

read_certificates(st, hashes, io) ==
    IF io = "error" THEN Err("ViewError")
    ELSE Ok([i \in DOMAIN FilterSeq(hashes, DOMAIN st.certificates) |->
                st.certificates[FilterSeq(hashes, DOMAIN st.certificates)[i]]])

missing_blobs(st, blob_ids, io) ==
    IF io = "error" THEN Err("ViewError")
    ELSE Ok(FilterSeq(blob_ids, BlobIds \ DOMAIN st.blobs))

\* Writes the blobs that already have a blob state; one flag per blob
maybe_write_blobs(st, contents, io) ==
    IF io = "error" THEN [res |-> Err("ViewError"), storage |-> st]
    ELSE LET written == {c \in Range(contents) : BlobIdOf(c) \in DOMAIN st.blob_states}
             ids == DOMAIN st.blobs \cup {BlobIdOf(c) : c \in written}
         IN [res |-> Ok([i \in DOMAIN contents |-> contents[i] \in written]),
             storage |-> [st EXCEPT !.blobs =
                            [b \in ids |-> IF b \in DOMAIN st.blobs THEN st.blobs[b]
                                           ELSE CHOOSE c \in written : BlobIdOf(c) = b]]]

----------------------------------------------------------------------------
(* ProxyContext::run and Proxy::from_context *)

NoProxy == [variant |-> "None"]

SimpleProxy(internal_transport, public_transport, ctx) ==
    [variant |-> "Simple",
     internal_config |-> [protocol |-> internal_transport, shards |-> ctx.shards],
     public_config |-> [protocol |-> public_transport],
     send_timeout |-> ctx.send_timeout,
     recv_timeout |-> ctx.recv_timeout]

GrpcProxy(ctx) == [variant |-> "Grpc"]

\* Mutant: only the internal protocol decides the variant
from_context_lenient(ctx) ==
    IF ctx.internal_protocol.family = "Grpc" THEN Ok(GrpcProxy(ctx))
    ELSE Ok(SimpleProxy(ctx.internal_protocol.transport,
                        ctx.external_protocol.transport, ctx))

from_context(ctx) ==
    LET internal_protocol == ctx.internal_protocol
        external_protocol == ctx.external_protocol
    IN CASE internal_protocol.family = "Grpc" /\ external_protocol.family = "Grpc" ->
              Ok(GrpcProxy(ctx))
         [] internal_protocol.family = "Simple" /\ external_protocol.family = "Simple" ->
              Ok(SimpleProxy(internal_protocol.transport, external_protocol.transport, ctx))
         [] OTHER ->
              [tag |-> "Err", value |-> NoProxy,
               error |-> <<"network protocol mismatch", internal_protocol, external_protocol>>]

\* What ProxyContext::run does with the Result of from_context: the error is
\* returned, a simple proxy spawns its server and awaits the server handle
RunStart(built, bind) ==
    /\ proxy' = built.value
    /\ runPc' = IF built.tag = "Err" THEN "failed"
                ELSE IF built.value.variant = "Simple" THEN "serving"
                ELSE "servingGrpc"
    /\ server' = IF built.tag = "Ok" /\ built.value.variant = "Simple" THEN bind
                 ELSE server
    /\ UNCHANGED <<context, shutdown, silent, storage, active, handlerVars, histVars, libVars>>

\* ProxyContext::run: build the proxy, return the error or start serving
Run ==
    /\ runPc = "start"
    /\ RunStart(from_context(context), "accepting")

----------------------------------------------------------------------------
(* SimpleProxy::try_local_message *)

Local(res, st, ops) == [res |-> res, storage |-> st, ops |-> ops]

\* The storage operation a local message leads to, as recorded in the trace
StorageOp(name) == <<Io("storage", NoShard, name, None)>>

\* Mutant: the version is answered only after the storage was looked at
VersionInfoArmChecked(st, io) ==
    LET r == read_network_description(st, io)
    IN Local(IF r.tag = "Err" THEN Err(r.error)
             ELSE Ok(Msg("VersionInfoResponse", NoChain, <<VersionInfo>>)),
             st, StorageOp("read_network_description"))

\* VersionInfoQuery => Ok(Some(RpcMessage::VersionInfoResponse(..)))
VersionInfoArm(st, io) ==
    Local(Ok(Msg("VersionInfoResponse", NoChain, <<VersionInfo>>)), st, <<>>)

\* Mutant: a missing network description is answered with an empty one
NetworkDescriptionArmDefault(st, io) ==
    LET r == read_network_description(st, io)
    IN Local(IF r.tag = "Err" THEN Err(r.error)
             ELSE Ok(Msg("NetworkDescriptionResponse", NoChain, <<r.value>>)),
             st, StorageOp("read_network_description"))

\* NetworkDescriptionQuery => read_network_description().await?.ok_or(..)?
NetworkDescriptionArm(st, io) ==
    LET r == read_network_description(st, io)
    IN Local(IF r.tag = "Err" THEN Err(r.error)
             ELSE IF r.value = NoDescription
                  THEN Err("Cannot find network description in the database")
             ELSE Ok(Msg("NetworkDescriptionResponse", NoChain, <<r.value>>)),
             st, StorageOp("read_network_description"))

\* Mutant: the flag returned by maybe_write_blobs is not looked at
UploadBlobArmNoEnsure(st, content, io) ==
    LET w == maybe_write_blobs(st, <<content>>, io)
    IN Local(IF w.res.tag = "Err" THEN Err(w.res.error)
             ELSE Ok(Msg("UploadBlobResponse", NoChain, <<BlobIdOf(content)>>)),
             w.storage, StorageOp("maybe_write_blobs"))

\* UploadBlob(content) => ensure!(maybe_write_blobs(&[blob]).await?[0], ..)
UploadBlobArm(st, content, io) ==
    LET id == BlobIdOf(content)
        w == maybe_write_blobs(st, <<content>>, io)
    IN Local(IF w.res.tag = "Err" THEN Err(w.res.error)
             ELSE IF ~w.res.value[1] THEN Err("Blob not found")
             ELSE Ok(Msg("UploadBlobResponse", NoChain, <<id>>)),
             w.storage, StorageOp("maybe_write_blobs"))

\* Mutant: the blob state is read where the blob is meant
DownloadBlobArmState(st, blob_id, io) ==
    LET r == read_blob_state(st, blob_id, io)
    IN Local(IF r.tag = "Err" THEN Err(r.error)
             ELSE Ok(Msg("DownloadBlobResponse", NoChain, <<r.value>>)),
             st, StorageOp("read_blob"))

\* DownloadBlob(blob_id) => read_blob(*blob_id).await?
DownloadBlobArm(st, blob_id, io) ==
    LET r == read_blob(st, blob_id, io)
    IN Local(IF r.tag = "Err" THEN Err(r.error)
             ELSE Ok(Msg("DownloadBlobResponse", NoChain, <<r.value>>)),
             st, StorageOp("read_blob"))

\* Mutant: only the first identifier of the query is looked up
MissingBlobIdsArmFirst(st, blob_ids, io) ==
    LET r == missing_blobs(st, IF blob_ids = <<>> THEN <<>> ELSE <<blob_ids[1]>>, io)
    IN Local(IF r.tag = "Err" THEN Err(r.error)
             ELSE Ok(Msg("MissingBlobIdsResponse", NoChain, r.value)),
             st, StorageOp("missing_blobs"))

\* MissingBlobIds(blob_ids) => missing_blobs(&blob_ids).await?
MissingBlobIdsArm(st, blob_ids, io) ==
    LET r == missing_blobs(st, blob_ids, io)
    IN Local(IF r.tag = "Err" THEN Err(r.error)
             ELSE Ok(Msg("MissingBlobIdsResponse", NoChain, r.value)),
             st, StorageOp("missing_blobs"))

\* Mutant: the arm of BlobLastUsedBy is missing, the kind falls to the last arm
BlobLastUsedByArmMissing(st, blob_id, io) == Local(Err("UnexpectedMessage"), st, <<>>)

\* BlobLastUsedBy(blob_id) => read_blob_state(*blob_id).await?.last_used_by
BlobLastUsedByArm(st, blob_id, io) ==
    LET r == read_blob_state(st, blob_id, io)
    IN Local(IF r.tag = "Err" THEN Err(r.error)
             ELSE Ok(Msg("BlobLastUsedByResponse", NoChain, <<r.value>>)),
             st, StorageOp("read_blob_state"))

\* Mutant: a kind the dispatcher does not serve is answered with itself
UnexpectedArmEcho(st, m) == Local(Ok(m), st, <<>>)

\* The last arm: every other variant => Err(NodeError::UnexpectedMessage)
UnexpectedArm(st, m) == Local(Err("UnexpectedMessage"), st, <<>>)

\* io: whether the storage operation of this message succeeds or fails
try_local_message(st, m, io) ==
    LET a == m.arg
    IN CASE m.kind = "VersionInfoQuery" -> VersionInfoArm(st, io)
         [] m.kind = "NetworkDescriptionQuery" -> NetworkDescriptionArm(st, io)
         [] m.kind = "UploadBlob" -> UploadBlobArm(st, a[1], io)
         [] m.kind = "DownloadBlob" -> DownloadBlobArm(st, a[1], io)
         [] m.kind = "DownloadConfirmedBlock" ->
              LET r == read_confirmed_block(st, a[1], io)
              IN Local(IF r.tag = "Err" THEN Err(r.error)
                       ELSE Ok(Msg("DownloadConfirmedBlockResponse", NoChain, <<r.value>>)),
                       st, StorageOp("read_confirmed_block"))
         [] m.kind = "DownloadCertificates" ->
              LET r == read_certificates(st, a, io)
              IN Local(IF r.tag = "Err" THEN Err(r.error)
                       ELSE Ok(Msg("DownloadCertificatesResponse", NoChain, r.value)),
                       st, StorageOp("read_certificates"))
         [] m.kind = "BlobLastUsedBy" -> BlobLastUsedByArm(st, a[1], io)
         [] m.kind = "MissingBlobIds" -> MissingBlobIdsArm(st, a, io)
         [] OTHER -> UnexpectedArm(st, m)

----------------------------------------------------------------------------
(* SimpleProxy::try_proxy_message: control flow after each awaited step *)

\* Mutant: a failed connection is attempted again
AfterConnectRetry(o) == IF o = "ok" THEN "send" ELSE "connect"

\* `protocol.connect(..).await?`: on failure the error is returned at once
AfterConnect(o) == IF o = "ok" THEN "send" ELSE "return"

ConnectError(o) == Err("connect failed")

\* Mutant: the outcome of the send is ignored
AfterSendIgnore(o) == "recv"

\* `timeout(send_timeout, connection.send(message)).await??`
AfterSend(o) == IF o = "ok" THEN "recv" ELSE "return"

SendError(o) == IF o = "timeout" THEN Err("send timeout") ELSE Err("send failed")

\* Mutant: an elapsed recv_timeout is taken for an empty answer
RecvResultTimeoutNone(o, reply) ==
    CASE o = "timeout" -> Ok(None)
      [] o = "closed" -> Ok(None)
      [] o = "error" -> Err("receive failed")
      [] o = "message" -> Ok(reply)

\* Mutant: a cleanly closed stream is an error and a reply is swallowed
RecvResultClosedErr(o, reply) ==
    CASE o = "timeout" -> Err("receive timeout")
      [] o = "closed" -> Err("stream closed")
      [] o = "error" -> Err("receive failed")
      [] o = "message" -> Ok(None)

\* `timeout(recv_timeout, connection.next()).await?.transpose()?`
\* o: "timeout" (recv_timeout elapsed), "closed" (the stream ended cleanly:
\* next() = None), "error" (the stream broke before delivering a message:
\* next() = Some(Err)), "message" (next() = Some(Ok(reply)))
RecvResult(o, reply) ==
    CASE o = "timeout" -> Err("receive timeout")
      [] o = "closed" -> Ok(None)
      [] o = "error" -> Err("receive failed")
      [] o = "message" -> Ok(reply)

\* `protocol.connect(..).await?` is awaited without a deadline: it completes,
\* with a connection or an error, only when the transport does
ConnectOutcomes(s) == IF s \in silent THEN {} ELSE {"ok", "error"}

\* Mutant: the send is awaited without a deadline
SendOutcomesUnbounded(s) == IF s \in silent THEN {} ELSE {"ok", "timeout", "error"}

\* `timeout(self.send_timeout, ..)`: the timer fires whatever the shard does
SendOutcomes(s) == IF s \in silent THEN {"timeout"} ELSE {"ok", "timeout", "error"}

\* `timeout(self.recv_timeout, ..)`: the timer fires whatever the shard does
RecvOutcomes(s) ==
    IF s \in silent THEN {"timeout"} ELSE {"timeout", "closed", "error", "message"}

----------------------------------------------------------------------------
(* SimpleProxy::handle_message *)

\* Mutant: a failure is answered with a synthesized error message
MatchResultSynth(r) == IF r.tag = "Ok" THEN r.value ELSE Msg("Error", NoChain, <<>>)

\* The match arms of handle_message on the Result of the two helpers
MatchResult(r) == IF r.tag = "Ok" THEN r.value ELSE None

\* Mutant: the shard also depends on the kind of the message
ResolveShardByKind(p, m) ==
    LET shards == p.internal_config.shards
        skew == IF m.kind = "BlockProposal" THEN 1 ELSE 0
    IN shards[((get_shard_id(shards, target_chain_id(m)) + skew) % Len(shards)) + 1]

\* Mutant: the first shard of the list is never found
ResolveShardPartial(p, m) ==
    LET shards == p.internal_config.shards
        i == get_shard_id(shards, target_chain_id(m))
    IN IF i = 0 THEN NoShard ELSE shards[i + 1]

\* Mutant: the shards are reached over the transport of the public side
ForwardProtocolPublic(p) == p.public_config.protocol

\* `let protocol = self.internal_config.protocol;`
ForwardProtocol(p) == p.internal_config.protocol

\* `self.internal_config.get_shard_for(chain_id).clone()`
ResolveShard(p, m) == get_shard_for(p.internal_config.shards, target_chain_id(m))

\* Mutant: a lock is held across the forward, one forward at a time
ServingSerialized(h) ==
    /\ runPc \in {"serving", "draining"}
    /\ proxy.variant = "Simple"
    /\ h \in active
    /\ \A g \in Handlers \ {h} : pc[g] \notin {"connect", "send", "recv"}

\* Instance h is a task of the join set of SimpleProxy::run, which has not
\* returned: it awaits the server handle, then the remaining tasks
Serving(h) ==
    /\ runPc \in {"serving", "draining"}
    /\ proxy.variant = "Simple"
    /\ h \in active

\* handle_message returns: from the helpers' Result r
Finish(h, r, t) ==
    /\ inner' = [inner EXCEPT ![h] = r]
    /\ result' = [result EXCEPT ![h] = MatchResult(r)]
    /\ trace' = [trace EXCEPT ![h] = t]
    /\ pc' = [pc EXCEPT ![h] = "done"]

\* Mutant: the local check is skipped
ClassifySkipLocal(m) == IF target_chain_id(m) = NoChain THEN "drop" ELSE "forward"

\* The path handle_message takes: `if message.is_local_message()`, then
\* `let Some(chain_id) = message.target_chain_id() else`
Classify(m) ==
    IF is_local_message(m) THEN "local"
    ELSE IF target_chain_id(m) = NoChain THEN "drop"
    ELSE "forward"

\* Mutant: a message without chain id is sent to the first shard
DropMalformedConnect(h) ==
    /\ pc' = [pc EXCEPT ![h] = "connect"]
    /\ shard' = [shard EXCEPT ![h] = proxy.internal_config.shards[1]]
    /\ malformedSeen' = TRUE
    /\ UNCHANGED <<inner, result>>

\* "Can't proxy message without chain ID": return None
DropMalformed(h) ==
    /\ pc' = [pc EXCEPT ![h] = "done"]
    /\ result' = [result EXCEPT ![h] = None]
    /\ malformedSeen' = TRUE
    /\ UNCHANGED <<shard, inner>>

\* A message arrives: classification, and shard resolution for a forward
Receive(h, m) ==
    /\ Serving(h)
    /\ server = "accepting"
    /\ pc[h] = "idle"
    /\ msg' = [msg EXCEPT ![h] = m]
    /\ IF Classify(m) = "local"
       THEN /\ pc' = [pc EXCEPT ![h] = "local"]
            /\ UNCHANGED <<shard, inner, result, malformedSeen>>
       ELSE IF Classify(m) = "drop"
       THEN DropMalformed(h)
       ELSE /\ shard' = [shard EXCEPT ![h] = ResolveShard(proxy, m)]
            /\ pc' = [pc EXCEPT ![h] = "connect"]
            /\ UNCHANGED <<inner, result, malformedSeen>>
    /\ UNCHANGED <<cfgVars, storage, active, trace, routes>>

\* The local branch: one storage operation, then the match on its Result
LocalDispatch(h) ==
    /\ Serving(h)
    /\ pc[h] = "local"
    /\ \E io \in {"ok", "error"} :
          LET l == try_local_message(storage, msg[h], io)
          IN /\ storage' = l.storage
             /\ Finish(h, l.res, trace[h] \o l.ops)
    /\ UNCHANGED <<cfgVars, active, msg, shard, histVars>>

\* try_proxy_message, first await: connect to the resolved shard
ProxyConnect(h) ==
    /\ Serving(h)
    /\ pc[h] = "connect"
    /\ routes' = [routes EXCEPT ![target_chain_id(msg[h])] = @ \cup {shard[h]}]
    /\ \E o \in ConnectOutcomes(shard[h]) :
          LET t == Append(trace[h], IoWith("connect", shard[h], o, None,
                                         ForwardProtocol(proxy), 0))
          IN IF AfterConnect(o) = "return"
             THEN Finish(h, ConnectError(o), t)
             ELSE /\ pc' = [pc EXCEPT ![h] = AfterConnect(o)]
                  /\ trace' = [trace EXCEPT ![h] = t]
                  /\ UNCHANGED <<inner, result>>
    /\ UNCHANGED <<cfgVars, storage, active, msg, shard, malformedSeen>>

\* try_proxy_message, second await: send bounded by send_timeout
ProxySend(h) ==
    /\ Serving(h)
    /\ pc[h] = "send"
    /\ \E o \in SendOutcomes(shard[h]) :
          LET t == Append(trace[h], IoWith("send", shard[h], o, None,
                                         ForwardProtocol(proxy), proxy.send_timeout))
          IN IF AfterSend(o) = "return"
             THEN Finish(h, SendError(o), t)
             ELSE /\ pc' = [pc EXCEPT ![h] = AfterSend(o)]
                  /\ trace' = [trace EXCEPT ![h] = t]
                  /\ UNCHANGED <<inner, result>>
    /\ UNCHANGED <<cfgVars, storage, active, msg, shard, histVars>>

\* try_proxy_message, third await: receive bounded by recv_timeout
ProxyRecv(h) ==
    /\ Serving(h)
    /\ pc[h] = "recv"
    /\ \E o \in RecvOutcomes(shard[h]) :
       \E reply \in IF o = "message" THEN ShardReplies ELSE {None} :
          Finish(h, RecvResult(o, reply),
                 Append(trace[h], IoWith("recv", shard[h], o, reply,
                                         ForwardProtocol(proxy), proxy.recv_timeout)))
    /\ UNCHANGED <<cfgVars, storage, active, msg, shard, histVars>>

\* The response (or none) goes back to the connection; the instance is free
Return(h) ==
    /\ Serving(h)
    /\ pc[h] = "done"
    /\ pc' = [pc EXCEPT ![h] = "idle"]
    /\ msg' = [msg EXCEPT ![h] = None]
    /\ shard' = [shard EXCEPT ![h] = NoShard]
    /\ inner' = [inner EXCEPT ![h] = Pending]
    /\ result' = [result EXCEPT ![h] = None]
    /\ trace' = [trace EXCEPT ![h] = <<>>]
    /\ UNCHANGED <<cfgVars, storage, active, histVars>>

----------------------------------------------------------------------------
(* linera-storage: the code caches of ChainRuntimeContext and create_chain *)

NumTasks == 2       \* tasks calling into the storage library side by side
MaxApp == 2         \* application ids 1..MaxApp
NumLockShards == 1  \* lock shards of one DashMap

Tasks == 1..NumTasks
AppIds == 1..MaxApp
LockShards == 0..(NumLockShards - 1)
NoTask == 0
NoCode == <<>>

\* The executor has a single worker thread, or one for every task
WorkerPools == {1, NumTasks}

\* user_contracts and user_services of ChainRuntimeContext
CodeMaps == {"user_contracts", "user_services"}

\* DashMap keeps its entries in lock shards chosen by the key's hash
LockShard(a) == a % NumLockShards

\* A call of get_user_contract / get_user_service that has not been made
IdleCall == [pc |-> "idle", map |-> "none", app |-> 0, ret |-> Pending]

\* A call of create_chain that has not been made; view: is_active() of the
\* ChainStateView instance the call has loaded
IdleCreate == [pc |-> "idle", chain |-> NoChain, view |-> FALSE, ret |-> Pending]

\* A chain nothing has been stored for
NoChainState == [blob |-> FALSE, active |-> FALSE, saves |-> 0]

\* ChainRuntimeContext as constructed: both caches empty, no lock held
InitCaches ==
    /\ caches = [m \in CodeMaps |-> [a \in AppIds |-> NoCode]]
    /\ locks = [l \in CodeMaps \X LockShards |-> NoTask]
    /\ calls = [t \in Tasks |-> IdleCall]
    /\ inserts = [m \in CodeMaps |-> [a \in AppIds |-> 0]]

InitChains ==
    /\ chains = [c \in ChainIds |-> NoChainState]
    /\ creates = [t \in Tasks |-> IdleCreate]
    /\ overlapped = {}

InitLib ==
    /\ workers = 1
    /\ InitCaches
    /\ InitChains

----------------------------------------------------------------------------
(* Specification *)

InitContext ==
    \E ip \in Protocols, ep \in Protocols, n \in 1..MaxShards, t \in TimeoutPairs :
        context = [internal_protocol |-> ip, external_protocol |-> ep,
                   shards |-> ShardList(n),
                   send_timeout |-> t[1], recv_timeout |-> t[2]]

InitHandlers ==
    /\ pc = [h \in Handlers |-> "idle"]
    /\ msg = [h \in Handlers |-> None]
    /\ shard = [h \in Handlers |-> NoShard]
    /\ inner = [h \in Handlers |-> Pending]
    /\ result = [h \in Handlers |-> None]
    /\ trace = [h \in Handlers |-> <<>>]
    /\ routes = [c \in ChainIds |-> {}]
    /\ malformedSeen = FALSE

\* Before run: no server task, no shutdown signal, every shard answering
InitRuntime ==
    /\ proxy = NoProxy
    /\ runPc = "start"
    /\ server = "none"
    /\ shutdown = FALSE
    /\ silent = {}

Init ==
    /\ InitContext
    /\ InitRuntime
    /\ storage \in InitStorages
    /\ active = {1}
    /\ InitHandlers
    /\ InitLib

Next ==
    \/ Run
    \/ \E h \in Handlers, m \in InboundMessages : Receive(h, m)
    \/ \E h \in Handlers : LocalDispatch(h)
    \/ \E h \in Handlers : ProxyConnect(h)
    \/ \E h \in Handlers : ProxySend(h)
    \/ \E h \in Handlers : ProxyRecv(h)
    \/ \E h \in Handlers : Return(h)

Spec == Init /\ [][Next]_vars

----------------------------------------------------------------------------
(* Concurrent instances and shards that stop answering *)

\* A shard stops answering, for good: nothing it is asked completes any more
ShardStalls(s) ==
    /\ runPc = "serving"
    /\ s \in Range(context.shards) \ silent
    /\ silent' = silent \cup {s}
    /\ UNCHANGED <<context, proxy, runPc, server, shutdown, storage, active,
                   handlerVars, histVars, libVars>>

\* The traffic of the concurrent runs: two local queries, one request per chain
ForwardTraffic ==
    {Msg("VersionInfoQuery", NoChain, <<>>), Msg("NetworkDescriptionQuery", NoChain, <<>>)}
    \cup {Msg("ChainInfoQuery", c, <<>>) : c \in ChainIds}

\* A simple proxy over TCP with the longest shard list and the default deadlines
SimpleContext ==
    [internal_protocol |-> [family |-> "Simple", transport |-> "Tcp"],
     external_protocol |-> [family |-> "Simple", transport |-> "Tcp"],
     shards |-> ShardList(MaxShards),
     send_timeout |-> DefaultTimeoutMs, recv_timeout |-> DefaultTimeoutMs]

\* Two instances run side by side (the server runs one per connection)
ConcurrentPair == {h \in Handlers : h <= 2}

InitFwd ==
    /\ context = SimpleContext
    /\ InitRuntime
    /\ storage = PopulatedStorage
    /\ active = ConcurrentPair
    /\ InitHandlers
    /\ InitLib

NextFwd ==
    \/ Run
    \/ \E s \in Range(context.shards) : ShardStalls(s)
    \/ \E h \in Handlers, m \in ForwardTraffic : Receive(h, m)
    \/ \E h \in Handlers : LocalDispatch(h)
    \/ \E h \in Handlers : ProxyConnect(h)
    \/ \E h \in Handlers : ProxySend(h)
    \/ \E h \in Handlers : ProxyRecv(h)
    \/ \E h \in Handlers : Return(h)

\* The executor polls every task whose awaited future is ready: a completed
\* storage operation, a completed connect or send, an arrived message, a fired timer
HandlerFairness ==
    \A h \in Handlers :
        /\ WF_vars(LocalDispatch(h))
        /\ WF_vars(ProxyConnect(h))
        /\ WF_vars(ProxySend(h))
        /\ WF_vars(ProxyRecv(h))

SpecFwd == InitFwd /\ [][NextFwd]_vars /\ HandlerFairness

----------------------------------------------------------------------------
(* SimpleProxy::run: server task, shutdown signal, join set *)

\* listen_for_shutdown_signals cancels the token on a termination signal
Shutdown ==
    /\ ~shutdown
    /\ runPc \in {"start", "serving"}
    /\ shutdown' = TRUE
    /\ UNCHANGED <<context, proxy, runPc, server, silent, storage, active,
                   handlerVars, histVars, libVars>>

\* ProxyContext::run with a listening port that cannot be bound: the server
\* task ends with the error before it accepts anything
RunBindFails ==
    /\ runPc = "start"
    /\ from_context(context).value.variant = "Simple"
    /\ RunStart(from_context(context), "bindFailed")

\* Mutant: the server is given a token of its own, which nobody cancels
ServerObservesNever == FALSE

\* `spawn_server(address, self, shutdown_signal, &mut join_set)`: the server
\* task watches the token that run was given
ServerObserves == shutdown

\* The accept loop sees the cancelled token and ends: nothing is accepted any more
ServerStop ==
    /\ server = "accepting"
    /\ ServerObserves
    /\ server' = "stopped"
    /\ UNCHANGED <<context, proxy, runPc, shutdown, silent, storage, active,
                   handlerVars, histVars, libVars>>

\* `.join().await?`: run goes on when the server task has ended, and returns
\* its error if it ended with one
ServerJoin ==
    /\ runPc = "serving"
    /\ server \in {"stopped", "bindFailed"}
    /\ runPc' = IF server = "bindFailed" THEN "failed" ELSE "draining"
    /\ UNCHANGED <<context, proxy, server, shutdown, silent, storage, active,
                   handlerVars, histVars, libVars>>

\* Mutant: run returns without awaiting the join set
RunMayReturnNoDrain == TRUE

\* `join_set.await_all_tasks().await`: every task of the join set has ended
RunMayReturn == \A h \in Handlers : pc[h] = "idle"

\* SimpleProxy::run returns Ok(())
RunReturn ==
    /\ runPc = "draining"
    /\ RunMayReturn
    /\ runPc' = "returned"
    /\ UNCHANGED <<context, proxy, server, shutdown, silent, storage, active,
                   handlerVars, histVars, libVars>>

InitRun ==
    /\ context = SimpleContext
    /\ InitRuntime
    /\ storage = PopulatedStorage
    /\ active = ConcurrentPair
    /\ InitHandlers
    /\ InitLib

NextRun ==
    \/ Run
    \/ RunBindFails
    \/ Shutdown
    \/ ServerStop
    \/ ServerJoin
    \/ RunReturn
    \/ \E h \in Handlers, m \in ForwardTraffic : Receive(h, m)
    \/ \E h \in Handlers : LocalDispatch(h)
    \/ \E h \in Handlers : ProxyConnect(h)
    \/ \E h \in Handlers : ProxySend(h)
    \/ \E h \in Handlers : ProxyRecv(h)
    \/ \E h \in Handlers : Return(h)

\* The executor runs every task that can go on: run itself, the server task
\* once the token is cancelled, and the handlers, whose every step completes
\* here because every shard answers or the deadline fires
RunFairness ==
    /\ WF_vars(Run \/ RunBindFails)
    /\ WF_vars(ServerStop)
    /\ WF_vars(ServerJoin)
    /\ WF_vars(RunReturn)
    /\ HandlerFairness
    /\ \A h \in Handlers : WF_vars(Return(h))

SpecRun == InitRun /\ [][NextRun]_vars /\ RunFairness

----------------------------------------------------------------------------
(* The Local Dispatcher over every storage content *)

\* The content a blob identifier is derived from
ContentOf(blob_id) == CHOOSE c \in BlobContents : BlobIdOf(c) = blob_id

\* The state (last_used_by) a stored blob state holds: never the blob's content
StateOf(blob_id) == (ContentOf(blob_id) % MaxHash) + 1

\* The storages of the local runs: with or without network description, any
\* set of blobs, the blob states of the first k blobs, the first n confirmed
\* blocks with their certificates
LocalStorages ==
    {[network_description |-> d,
      blobs |-> [b \in B |-> ContentOf(b)],
      blob_states |-> [b \in {BlobIdOf(c) : c \in 1..k} |-> StateOf(b)],
      confirmed_blocks |-> [x \in 1..n |-> x],
      certificates |-> [x \in 1..n |-> x]] :
        d \in {NoDescription, 1}, B \in SUBSET BlobIds, k \in 0..MaxBlob,
        n \in 0..MaxHash}

LocalMessages == {m \in InboundMessages : is_local_message(m)}

\* try_local_message called on its own, with any message
CallLocal(h, m) ==
    /\ Serving(h)
    /\ pc[h] = "idle"
    /\ msg' = [msg EXCEPT ![h] = m]
    /\ \E io \in {"ok", "error"} :
          LET l == try_local_message(storage, m, io)
          IN /\ storage' = l.storage
             /\ inner' = [inner EXCEPT ![h] = l.res]
             /\ trace' = [trace EXCEPT ![h] = l.ops]
    /\ pc' = [pc EXCEPT ![h] = "called"]
    /\ UNCHANGED <<cfgVars, active, shard, result, histVars>>

\* The caller drops the Result
CallReturn(h) ==
    /\ Serving(h)
    /\ pc[h] = "called"
    /\ pc' = [pc EXCEPT ![h] = "idle"]
    /\ msg' = [msg EXCEPT ![h] = None]
    /\ inner' = [inner EXCEPT ![h] = Pending]
    /\ trace' = [trace EXCEPT ![h] = <<>>]
    /\ UNCHANGED <<cfgVars, storage, active, shard, result, histVars>>

InitLocal ==
    /\ context = SimpleContext
    /\ InitRuntime
    /\ storage \in LocalStorages
    /\ active = {1}
    /\ InitHandlers
    /\ InitLib

NextLocal ==
    \/ Run
    \/ \E h \in Handlers, m \in LocalMessages : Receive(h, m)
    \/ \E h \in Handlers : LocalDispatch(h)
    \/ \E h \in Handlers : Return(h)
    \/ \E h \in Handlers, m \in InboundMessages : CallLocal(h, m)
    \/ \E h \in Handlers : CallReturn(h)

SpecLocal == InitLocal /\ [][NextLocal]_vars

----------------------------------------------------------------------------
(* Properties *)

InFlight(h) == pc[h] # "idle"

Ops(h, op) == {i \in DOMAIN trace[h] : trace[h][i].op = op}

LastIo(h) == trace[h][Len(trace[h])]

FamiliesMatch == context.internal_protocol.family = context.external_protocol.family

\* C1: whatever failure occurs while a message is handled (storage error, absent
\* entity, unexpected kind, connection failure, send timeout or error, receive
\* timeout or error), handle_message has returned, its result is None, and the
\* serving loop is still running.
C1_FailuresYieldNoResponse ==
    \A h \in Handlers :
        inner[h].tag = "Err" =>
            /\ pc[h] = "done"
            /\ result[h] = None
            /\ runPc = "serving"

C1_Witness ==
    \E h \in Handlers :
        /\ pc[h] = "done"
        /\ inner[h] = Err("receive timeout")
        /\ result[h] = None

\* C2: with mismatched protocol families from_context fails and run returns the
\* error without any serving (no proxy, no message ever handled); with matching
\* families construction succeeds and the proxy of that family serves.
C2_ProtocolGate ==
    runPc # "start" =>
        /\ ~FamiliesMatch =>
              /\ runPc = "failed"
              /\ proxy = NoProxy
              /\ \A h \in Handlers : pc[h] = "idle" /\ trace[h] = <<>>
              /\ ~malformedSeen
              /\ \A c \in ChainIds : routes[c] = {}
        /\ FamiliesMatch =>
              /\ runPc = IF context.internal_protocol.family = "Simple"
                         THEN "serving" ELSE "servingGrpc"
              /\ proxy.variant = context.internal_protocol.family

C2_Witness == runPc = "failed" /\ ~FamiliesMatch

\* C3: a local message is handled by the Local Dispatcher alone and never leads
\* to a shard operation, also when the dispatch fails; any other message never
\* leads to a storage operation, leaves storage untouched, and is either dropped
\* without any I/O or forwarded to the one resolved shard.
C3_OnePathPerMessage ==
    \A h \in Handlers :
        InFlight(h) =>
            IF is_local_message(msg[h])
            THEN /\ pc[h] \in {"local", "done"}
                 /\ pc[h] = "done" => inner[h].tag # "Pending"
                 /\ \A i \in DOMAIN trace[h] : trace[h][i].op = "storage"
                 /\ shard[h] = NoShard
            ELSE /\ pc[h] # "local"
                 /\ \A i \in DOMAIN trace[h] :
                       /\ trace[h][i].op # "storage"
                       /\ trace[h][i].shard = shard[h]
                 /\ target_chain_id(msg[h]) = NoChain =>
                       pc[h] = "done" /\ trace[h] = <<>> /\ result[h] = None

C3_Witness ==
    \E h \in Handlers :
        /\ pc[h] = "done"
        /\ is_local_message(msg[h])
        /\ inner[h].tag = "Err"
        /\ Len(trace[h]) = 1

\* A step in which instance h takes up a non-local message without chain id
MalformedStep(h) ==
    /\ pc[h] = "idle"
    /\ pc'[h] # "idle"
    /\ ~is_local_message(msg'[h])
    /\ target_chain_id(msg'[h]) = NoChain

OthersUnchanged(h) ==
    \A g \in Handlers \ {h} :
        /\ pc'[g] = pc[g] /\ msg'[g] = msg[g] /\ shard'[g] = shard[g]
        /\ inner'[g] = inner[g] /\ result'[g] = result[g] /\ trace'[g] = trace[g]

\* C4: taking up a non-local message without chain id ends handle_message at once
\* with None, without any I/O and without touching the configuration, the
\* storage, the routing or any other instance; and when the instance hands back
\* its (non-)response it is exactly in its initial idle state again, so whatever
\* is handled afterwards is handled as if the malformed message was never sent.
C4_MalformedDroppedWithoutTrace ==
    /\ [][\A h \in Handlers :
             MalformedStep(h) =>
                 /\ pc'[h] = "done"
                 /\ result'[h] = None
                 /\ trace'[h] = <<>>
                 /\ shard'[h] = NoShard
                 /\ inner'[h] = Pending
                 /\ UNCHANGED <<cfgVars, storage, active, routes>>
                 /\ OthersUnchanged(h)]_vars
    /\ [][\A h \in Handlers :
             (pc[h] = "done" /\ pc'[h] # "done") =>
                 /\ pc'[h] = "idle"
                 /\ msg'[h] = None
                 /\ shard'[h] = NoShard
                 /\ inner'[h] = Pending
                 /\ result'[h] = None
                 /\ trace'[h] = <<>>
                 /\ UNCHANGED <<cfgVars, storage, active, histVars>>
                 /\ OthersUnchanged(h)]_vars

\* After a malformed message was dropped, a version query is answered and a
\* forwarded request gets the shard's reply
C4_Witness ==
    /\ malformedSeen
    /\ \E h \in Handlers :
          /\ pc[h] = "done"
          /\ msg[h].kind = "ChainInfoQuery"
          /\ result[h] = Msg("ChainInfoResponse", NoChain, <<>>)

\* The shards the messages of chain c have been, or are about to be, sent to
ShardsOf(c) ==
    routes[c] \cup {shard[h] : h \in {g \in Handlers :
                        InFlight(g) /\ target_chain_id(msg[g]) = c}}

\* C5: all messages carrying the same chain identifier go to the same shard,
\* whatever was handled before, whatever failed before, whatever their kind.
C5_RoutingDeterministic ==
    \A c \in ChainIds : Cardinality(ShardsOf(c)) <= 1

\* A second message of a chain that was routed before is about to be connected
C5_Witness ==
    \E h \in Handlers :
        /\ pc[h] = "connect"
        /\ msg[h].kind = "BlockProposal"
        /\ routes[target_chain_id(msg[h])] = {shard[h]}

\* C6: for every chain identifier the router yields a shard, and it is one of the
\* descriptors of the configured shard list.
C6_RoutingTotal ==
    \A h \in Handlers :
        (InFlight(h) /\ target_chain_id(msg[h]) # NoChain) =>
            shard[h] \in Range(context.shards)

\* Every chain has been routed, to a shard of a list of several shards
C6_Witness ==
    /\ Len(context.shards) = MaxShards
    /\ \A c \in ChainIds :
          \E s \in Range(context.shards) : routes[c] = {s}

\* C7: for one message there is at most one connection attempt, one send and one
\* receive, all with the resolved shard; nothing follows a failed step.
C7_SingleRoundTrip ==
    \A h \in Handlers :
        /\ Cardinality(Ops(h, "connect")) <= 1
        /\ Cardinality(Ops(h, "send")) <= 1
        /\ Cardinality(Ops(h, "recv")) <= 1
        /\ \A i \in DOMAIN trace[h] :
              /\ trace[h][i].op # "storage" => trace[h][i].shard = shard[h]
              /\ trace[h][i].outcome \in {"timeout", "error"} => i = Len(trace[h])

C7_Witness ==
    \E h \in Handlers :
        /\ pc[h] = "done"
        /\ Len(trace[h]) = 1
        /\ trace[h][1].op = "connect"
        /\ trace[h][1].outcome = "error"

\* C8: a send is attempted only right after a successful connection, a receive
\* only right after a successful send: a failed connection, a send timeout and a
\* send error each end the forwarding.
C8_StepsOrdered ==
    \A h \in Handlers :
        \A i \in DOMAIN trace[h] :
            /\ trace[h][i].op = "connect" => i = 1
            /\ trace[h][i].op = "send" =>
                  /\ i = 2
                  /\ trace[h][1].op = "connect" /\ trace[h][1].outcome = "ok"
            /\ trace[h][i].op = "recv" =>
                  /\ i = 3
                  /\ trace[h][2].op = "send" /\ trace[h][2].outcome = "ok"

C8_Witness ==
    \E h \in Handlers :
        /\ pc[h] = "done"
        /\ Len(trace[h]) = 2
        /\ trace[h][2].op = "send"
        /\ trace[h][2].outcome = "timeout"
        /\ inner[h] = Err("send timeout")

Received(h, o) ==
    /\ pc[h] = "done"
    /\ trace[h] # <<>>
    /\ LastIo(h).op = "recv"
    /\ LastIo(h).outcome = o

\* C9: a receive that exceeds recv_timeout, and a stream that breaks before it
\* delivered a message, both make try_proxy_message return an error, not Ok(None).
C9_ReceiveFailures ==
    \A h \in Handlers :
        (Received(h, "timeout") \/ Received(h, "error")) =>
            /\ inner[h].tag = "Err"
            /\ inner[h] # Ok(None)
            /\ inner[h].error = IF Received(h, "timeout") THEN "receive timeout"
                                ELSE "receive failed"

C9_Witness ==
    \E h \in Handlers : Received(h, "timeout") /\ inner[h] = Err("receive timeout")

\* C10: a stream closed cleanly before any message makes try_proxy_message return
\* Ok(None); a message received in time is the response of handle_message,
\* unchanged.
C10_ReceiveSuccess ==
    \A h \in Handlers :
        /\ Received(h, "closed") => inner[h] = Ok(None) /\ result[h] = None
        /\ Received(h, "message") =>
              /\ LastIo(h).reply \in ShardReplies
              /\ inner[h] = Ok(LastIo(h).reply)
              /\ result[h] = LastIo(h).reply

C10_Witness ==
    \E h \in Handlers : Received(h, "closed") /\ inner[h] = Ok(None)

\* Instance h forwards to a shard that has stopped answering
Stalled(h) == pc[h] \in {"connect", "send", "recv"} /\ shard[h] \in silent

\* The step instance g is about to take can be taken now
CanProceed(g) ==
    CASE pc[g] = "local" -> ENABLED LocalDispatch(g)
      [] pc[g] = "connect" -> ENABLED ProxyConnect(g)
      [] pc[g] = "send" -> ENABLED ProxySend(g)
      [] pc[g] = "recv" -> ENABLED ProxyRecv(g)
      [] pc[g] = "done" -> ENABLED Return(g)
      [] OTHER -> \E m \in ForwardTraffic : ENABLED Receive(g, m)

\* The response of instance g is the one its own message calls for
OwnResponse(g) ==
    /\ result[g] = MatchResult(inner[g])
    /\ IF is_local_message(msg[g])
       THEN \E io \in {"ok", "error"} : inner[g] = try_local_message(storage, msg[g], io).res
       ELSE Received(g, "message") => result[g] = LastIo(g).reply

\* C11: while one instance forwards to a shard that never answers, every other
\* instance (local, or forwarding to a shard that answers) can take its next
\* step at once; the stalled receive ends by the deadline alone, with no
\* response and without touching any other instance; every receive and every
\* local dispatch eventually completes, each with the response of its own message.
C11_TimeoutIsolation ==
    /\ [](\A h \in active : \A g \in active \ {h} :
             (Stalled(h) /\ ~Stalled(g)) => CanProceed(g))
    /\ [][\A h \in Handlers :
             (pc[h] = "recv" /\ shard[h] \in silent /\ pc'[h] # "recv") =>
                 /\ pc'[h] = "done"
                 /\ inner'[h] = Err("receive timeout")
                 /\ result'[h] = None
                 /\ OthersUnchanged(h)]_vars
    /\ \A h \in Handlers : (pc[h] = "recv") ~> (pc[h] = "done")
    /\ \A h \in Handlers : (pc[h] = "local") ~> (pc[h] = "done")
    /\ [](\A g \in Handlers : pc[g] = "done" => OwnResponse(g))

\* One instance timed out on a silent shard, another got the reply of its shard
C11_Witness ==
    \E h \in Handlers, g \in Handlers :
        /\ Received(h, "timeout") /\ shard[h] \in silent /\ result[h] = None
        /\ Received(g, "message") /\ shard[g] \notin silent
        /\ result[g] \in ShardReplies

\* C12 as stated: every call of try_proxy_message eventually returns, whichever
\* of its three waiting steps (connect, send, receive) it is in.
C12_EveryForwardReturns ==
    \A h \in Handlers : (pc[h] \in {"connect", "send", "recv"}) ~> (pc[h] = "done")

\* C12, amended: the send and the receive are each bounded by a deadline, so a
\* call that got its connection always returns, whatever the shard does; the
\* connection attempt has no deadline, it ends only if the shard (or the
\* transport) ends it.
C12_BoundedOnceConnected ==
    /\ [](\A h \in active : pc[h] \in {"send", "recv"} => CanProceed(h))
    /\ \A h \in Handlers : (pc[h] \in {"send", "recv"}) ~> (pc[h] = "done")
    /\ \A h \in Handlers :
          (pc[h] = "connect") ~> (pc[h] \in {"send", "done"} \/ shard[h] \in silent)
    /\ [](\A h \in active : (pc[h] = "connect" /\ shard[h] \in silent) => ~CanProceed(h))

\* A send to a shard that stopped answering after the connection was ended by
\* send_timeout
C12_Witness ==
    \E h \in Handlers :
        /\ pc[h] = "done"
        /\ shard[h] \in silent
        /\ LastIo(h).op = "send"
        /\ LastIo(h).outcome = "timeout"
        /\ inner[h] = Err("send timeout")

\* Instance h has handled, or was called with, a message of kind k
Handled(h, k) == pc[h] \in {"done", "called"} /\ msg[h].kind = k

\* The storage layer failed while the message of instance h was handled
StorageFailed(h) == inner[h].error = "ViewError"

\* C13: handling UploadBlob(content) yields a response, and then the one carrying
\* the content-derived blob id, exactly if a blob state existed for that id (and
\* the storage layer did not fail); then the blob is stored under that id and
\* nothing else changes. Without blob state nothing is written, the storage is
\* unchanged and there is no response.
C13_UploadGating ==
    [][\A h \in Handlers :
          (pc[h] = "local" /\ msg[h].kind = "UploadBlob" /\ pc'[h] = "done") =>
              LET content == msg[h].arg[1]
                  id == BlobIdOf(content)
                  had == id \in DOMAIN storage.blob_states
              IN /\ result'[h] # None <=> (had /\ ~StorageFailed(h)')
                 /\ result'[h] # None =>
                       /\ result'[h] = Msg("UploadBlobResponse", NoChain, <<id>>)
                       /\ id \in DOMAIN storage'.blobs
                       /\ storage'.blobs[id] = content
                 /\ ~had => storage' = storage /\ inner'[h].tag = "Err"
                 /\ \A b \in DOMAIN storage.blobs :
                       b \in DOMAIN storage'.blobs /\ storage'.blobs[b] = storage.blobs[b]
                 /\ DOMAIN storage'.blobs \subseteq DOMAIN storage.blobs \cup {id}
                 /\ [storage' EXCEPT !.blobs = storage.blobs] = storage]_vars

\* An upload was answered with the blob id, and the blob is stored
C13_Witness ==
    \E h \in Handlers :
        /\ pc[h] = "done"
        /\ msg[h].kind = "UploadBlob"
        /\ result[h] = Msg("UploadBlobResponse", NoChain, <<BlobIdOf(msg[h].arg[1])>>)
        /\ storage.blobs[BlobIdOf(msg[h].arg[1])] = msg[h].arg[1]

\* An upload of content c has just been answered with the blob id
UploadAnswered(c) ==
    \E h \in Handlers :
        /\ pc[h] = "done"
        /\ msg[h] = Msg("UploadBlob", NoChain, <<c>>)
        /\ result[h] = Msg("UploadBlobResponse", NoChain, <<BlobIdOf(c)>>)

\* Every download of the blob id of c that has been handled, and during which
\* the storage layer did not fail, is answered with content c
DownloadsReturn(c) ==
    \A h \in Handlers :
        (/\ pc[h] = "done"
         /\ msg[h] = Msg("DownloadBlob", NoChain, <<BlobIdOf(c)>>)
         /\ ~StorageFailed(h)) =>
            result[h] = Msg("DownloadBlobResponse", NoChain, <<c>>)

C15_MissingBlobsExact ==
    \A h \in Handlers :
        (Handled(h, "MissingBlobIds") /\ ~StorageFailed(h)) =>
            /\ inner[h].tag = "Ok"
            /\ inner[h].value.kind = "MissingBlobIdsResponse"
            /\ Range(inner[h].value.arg) = Range(msg[h].arg) \ DOMAIN storage.blobs
            /\ pc[h] = "done" => result[h] = inner[h].value
            /\ \A q \in SeqsUpTo(BlobIds, MaxBatch) :
                  Range(q) = Range(msg[h].arg) =>
                      Range(try_local_message(storage, Msg("MissingBlobIds", NoChain, q),
                                              "ok").res.value.arg)
                          = Range(inner[h].value.arg)

\* A query for a stored and an absent blob is answered with the absent one
C15_Witness ==
    \E h \in Handlers :
        /\ pc[h] = "done"
        /\ msg[h].kind = "MissingBlobIds"
        /\ Len(msg[h].arg) = MaxBatch
        /\ Range(msg[h].arg) \cap DOMAIN storage.blobs # {}
        /\ Len(result[h].arg) = 1
        /\ result[h].arg[1] \notin DOMAIN storage.blobs

\* C16: try_local_message called with a kind outside the local set (a
\* chain-addressed request, a vote, an error, a response variant) returns the
\* error UnexpectedMessage, performs no storage operation, leaves the storage
\* as it was and produces no response.
C16_UnexpectedKind ==
    [][\A h \in Handlers :
          (pc[h] = "idle" /\ pc'[h] = "called"
           /\ msg'[h].kind \in ChainAddressedKinds \cup OtherKinds) =>
              /\ inner'[h] = Err("UnexpectedMessage")
              /\ trace'[h] = <<>>
              /\ storage' = storage
              /\ result'[h] = None
              /\ MatchResult(inner'[h]) = None]_vars

\* The dispatcher was called with a block proposal and reported it
C16_Witness ==
    \E h \in Handlers :
        /\ pc[h] = "called"
        /\ msg[h].kind = "BlockProposal"
        /\ inner[h] = Err("UnexpectedMessage")
        /\ trace[h] = <<>>

\* C19: try_local_message reports UnexpectedMessage for exactly the kinds outside
\* the local set of the data model, so it serves exactly the local kinds; and a
\* message handle_message classified as local is never reported as unexpected.
C19_ServedKindsAreLocalKinds ==
    \A h \in Handlers :
        /\ pc[h] = "called" =>
              (inner[h].error = "UnexpectedMessage" <=> msg[h].kind \notin LocalKinds)
        /\ (pc[h] = "done" /\ Classify(msg[h]) = "local") =>
              /\ inner[h].error # "UnexpectedMessage"
              /\ msg[h].kind \in LocalKinds

\* A blob-last-used-by query went the local path and was answered
C19_Witness ==
    \E h \in Handlers :
        /\ pc[h] = "done"
        /\ msg[h].kind = "BlobLastUsedBy"
        /\ inner[h].tag = "Ok"
        /\ result[h].kind = "BlobLastUsedByResponse"

\* What a handled read of one entity must have returned: nothing when the
\* entity is absent, the response with the stored value when it is present
\* (and the storage layer did not fail)
ReadReturned(h, present, response) ==
    IF present
    THEN ~StorageFailed(h) => (inner[h] = Ok(response) /\ result[h] = response)
    ELSE inner[h].tag = "Err" /\ result[h] = None

\* C20: a local read of an absent entity (network description not stored, blob
\* missing, confirmed block missing, no blob state) fails and yields no
\* response, never an empty or default payload; of a present entity it yields
\* the response carrying exactly the stored value.
C20_AbsentEntityFails ==
    \A h \in Handlers :
        pc[h] = "done" =>
            LET x == msg[h].arg[1]
            IN CASE msg[h].kind = "NetworkDescriptionQuery" ->
                      ReadReturned(h, storage.network_description # NoDescription,
                          Msg("NetworkDescriptionResponse", NoChain,
                              <<storage.network_description>>))
                 [] msg[h].kind = "DownloadBlob" ->
                      ReadReturned(h, x \in DOMAIN storage.blobs,
                          Msg("DownloadBlobResponse", NoChain, <<storage.blobs[x]>>))
                 [] msg[h].kind = "DownloadConfirmedBlock" ->
                      ReadReturned(h, x \in DOMAIN storage.confirmed_blocks,
                          Msg("DownloadConfirmedBlockResponse", NoChain,
                              <<storage.confirmed_blocks[x]>>))
                 [] msg[h].kind = "BlobLastUsedBy" ->
                      ReadReturned(h, x \in DOMAIN storage.blob_states,
                          Msg("BlobLastUsedByResponse", NoChain, <<storage.blob_states[x]>>))
                 [] OTHER -> TRUE

\* The network description was asked for, none is stored, nothing is answered
C20_Witness ==
    \E h \in Handlers :
        /\ pc[h] = "done"
        /\ msg[h].kind = "NetworkDescriptionQuery"
        /\ storage.network_description = NoDescription
        /\ inner[h] = Err("Cannot find network description in the database")
        /\ result[h] = None

\* SimpleProxy::run has returned, with Ok(()) or with the error of the server
RunEnded == runPc \in {"returned", "failed"}

\* C17: SimpleProxy::run has not returned as long as a task is handling a
\* message; it returns Ok only after the shutdown signal stopped the server;
\* once the server has stopped no instance takes up a new message; and a
\* message in flight is never dropped: it is handled to its end, its
\* (non-)response handed back, before the instance ends.
C17_GracefulDrain ==
    /\ [](RunEnded => \A h \in Handlers : pc[h] = "idle")
    /\ [](runPc \in {"draining", "returned"} => (shutdown /\ server = "stopped"))
    /\ [][(server = "stopped" \/ server = "bindFailed") =>
             (/\ server' = server
              /\ \A h \in Handlers : pc[h] = "idle" => pc'[h] = "idle")]_vars
    /\ [][\A h \in Handlers :
             (pc[h] # "idle" /\ pc'[h] = "idle") => pc[h] = "done"]_vars
    /\ [][RunEnded => UNCHANGED vars]_vars

\* The server has stopped, run awaits the join set, a forward is still in flight
C17_Witness ==
    /\ runPc = "draining"
    /\ server = "stopped"
    /\ \E h \in Handlers : pc[h] = "recv"

\* C18: once the shutdown signal is raised, SimpleProxy::run eventually
\* returns, under fair scheduling and with every handling terminating.
C18_ShutdownTerminates == shutdown ~> RunEnded

\* Run has returned after a shutdown, having forwarded messages before
C18_Witness ==
    /\ runPc = "returned"
    /\ shutdown
    /\ \E c \in ChainIds : routes[c] # {}

\* C21: while messages are handled neither the configuration nor the proxy built
\* from it changes; the storage changes only in the step that answers an
\* UploadBlob, and then by exactly that one blob; a version query is answered,
\* without any storage operation, also when the storage layer fails.
C21_FrameCondition ==
    /\ [][runPc # "start" => UNCHANGED <<context, proxy>>]_vars
    /\ [][storage' # storage =>
             \E h \in Handlers :
                 LET content == msg[h].arg[1]
                     id == BlobIdOf(content)
                 IN /\ pc[h] = "local" /\ msg[h].kind = "UploadBlob" /\ pc'[h] = "done"
                    /\ result'[h] = Msg("UploadBlobResponse", NoChain, <<id>>)
                    /\ id \notin DOMAIN storage.blobs
                    /\ DOMAIN storage'.blobs = DOMAIN storage.blobs \cup {id}
                    /\ storage'.blobs[id] = content
                    /\ \A b \in DOMAIN storage.blobs : storage'.blobs[b] = storage.blobs[b]
                    /\ [storage' EXCEPT !.blobs = storage.blobs] = storage]_vars
    /\ [][\A h \in Handlers :
             (pc[h] = "local" /\ msg[h].kind = "VersionInfoQuery" /\ pc'[h] # "local") =>
                 /\ pc'[h] = "done"
                 /\ result'[h] = Msg("VersionInfoResponse", NoChain, <<VersionInfo>>)
                 /\ trace'[h] = <<>>]_vars
    /\ [](\A io \in {"ok", "error"} :
             LET l == try_local_message(storage, Msg("VersionInfoQuery", NoChain, <<>>), io)
             IN l.res.tag = "Ok" /\ l.ops = <<>> /\ l.storage = storage)

\* An upload was answered and the storage now holds the blob it lacked at first
C21_Witness ==
    /\ storage # PopulatedStorage
    /\ storage.blob_states = PopulatedStorage.blob_states
    /\ \E h \in Handlers :
          /\ pc[h] = "done"
          /\ msg[h].kind = "UploadBlob"
          /\ result[h].kind = "UploadBlobResponse"
          /\ DOMAIN storage.blobs = DOMAIN PopulatedStorage.blobs \cup {result[h].arg[1]}

\* Both families simple: the configuration is accepted whatever the transports
BothSimple ==
    /\ context.internal_protocol.family = "Simple"
    /\ context.external_protocol.family = "Simple"

\* C22: a configuration with two simple transports is accepted also when they
\* differ, and the proxy keeps each side's own transport and the configured
\* deadlines; every connection to a shard goes over the internal transport, the
\* send is given the send deadline and the receive the receive deadline.
C22_ForwardUsesInternalConfig ==
    /\ (runPc # "start" /\ BothSimple) =>
          /\ runPc = "serving"
          /\ proxy.internal_config.protocol = context.internal_protocol.transport
          /\ proxy.internal_config.shards = context.shards
          /\ proxy.public_config.protocol = context.external_protocol.transport
          /\ proxy.send_timeout = context.send_timeout
          /\ proxy.recv_timeout = context.recv_timeout
    /\ \A h \in Handlers : \A i \in DOMAIN trace[h] :
          LET e == trace[h][i]
          IN /\ e.op \in {"connect", "send", "recv"} =>
                   e.via = context.internal_protocol.transport
             /\ e.op = "connect" => e.deadline = 0
             /\ e.op = "send" => e.deadline = context.send_timeout
             /\ e.op = "recv" => e.deadline = context.recv_timeout

\* TCP inside, UDP outside, different deadlines: a message went its whole way
C22_Witness ==
    /\ context.internal_protocol.transport = "Tcp"
    /\ context.external_protocol.transport = "Udp"
    /\ context.send_timeout # context.recv_timeout
    /\ \E h \in Handlers :
          /\ pc[h] = "done"
          /\ Len(trace[h]) = 3
          /\ trace[h][1].via = "Tcp"
          /\ trace[h][2].deadline = context.send_timeout
          /\ trace[h][3].deadline = context.recv_timeout

----------------------------------------------------------------------------
(* ChainRuntimeContext::get_user_contract / get_user_service *)

\* Everything of the proxy: untouched by the storage library
proxyVars == <<context, proxy, runPc, server, shutdown, silent, storage, active,
               handlerVars, histVars>>

\* DashMap::entry blocks the calling thread while the lock shard is held, so a
\* call stuck in it occupies its worker thread; a step of any task needs a
\* worker thread that is not occupied
FreeWorker == Cardinality({t \in Tasks : calls[t].pc = "blocked"}) < workers

LockOf(c) == <<c.map, LockShard(c.app)>>

\* Entry::Vacant without the lock: the write guard of the lock shard is given
\* up before the load is awaited
VacantHoldsNothing(t) == NoTask

\* Entry::Vacant(entry) holds the write guard of its lock shard for as long as
\* entry lives, that is across `load_contract(description).await`
VacantHolds(t) == t

\* A failed load leaves a placeholder entry behind
LoadFailedPoisons(c) == [caches EXCEPT ![c.map][c.app] = <<c.app, 0>>]

\* `load_contract(description).await?` returns early on Err: nothing is
\* inserted, the vacant entry is dropped
LoadFailed(c) == caches

\* The task starts a call of get_user_contract (m = "user_contracts") or
\* get_user_service (m = "user_services") for application a
Call(t, m, a) ==
    /\ calls[t].pc = "idle"
    /\ calls' = [calls EXCEPT ![t] = [pc |-> "entry", map |-> m, app |-> a,
                                      ret |-> Pending]]
    /\ UNCHANGED <<workers, caches, locks, inserts, chainVars, proxyVars>>

\* `match self.user_contracts.entry(..)` with the lock shard in hand:
\* Occupied returns a clone of the entry, Vacant goes on to load
EntryArm(t) ==
    LET c == calls[t]
        found == caches[c.map][c.app]
    IN IF found # NoCode
       THEN /\ calls' = [calls EXCEPT ![t].pc = "done", ![t].ret = Ok(found)]
            /\ UNCHANGED locks
       ELSE /\ calls' = [calls EXCEPT ![t].pc = "loading"]
            /\ locks' = [locks EXCEPT ![LockOf(c)] = VacantHolds(t)]

\* The call is polled and reaches DashMap::entry: it takes the lock shard, or
\* finds it held and blocks its worker thread
Lookup(t) ==
    /\ calls[t].pc = "entry"
    /\ FreeWorker
    /\ IF locks[LockOf(calls[t])] # NoTask
       THEN /\ calls' = [calls EXCEPT ![t].pc = "blocked"]
            /\ UNCHANGED locks
       ELSE EntryArm(t)
    /\ UNCHANGED <<workers, caches, inserts, chainVars, proxyVars>>

\* The lock shard has been released: the blocked DashMap::entry goes on
Wake(t) ==
    /\ calls[t].pc = "blocked"
    /\ locks[LockOf(calls[t])] = NoTask
    /\ EntryArm(t)
    /\ UNCHANGED <<workers, caches, inserts, chainVars, proxyVars>>

\* load_contract / load_service has finished and the call is polled again:
\* Ok inserts the new module and returns it, Err is returned by `?`; either
\* way the entry, and with it the lock shard, is let go
LoadCompletes(t, o) ==
    LET c == calls[t]
        code == <<c.app, inserts[c.map][c.app] + 1>>
    IN /\ c.pc = "loading"
       /\ FreeWorker
       /\ locks' = [locks EXCEPT ![LockOf(c)] = IF @ = t THEN NoTask ELSE @]
       /\ IF o = "ok"
          THEN /\ caches' = [caches EXCEPT ![c.map][c.app] = code]
               /\ inserts' = [inserts EXCEPT ![c.map][c.app] = @ + 1]
               /\ calls' = [calls EXCEPT ![t].pc = "done", ![t].ret = Ok(code)]
          ELSE /\ caches' = LoadFailed(c)
               /\ calls' = [calls EXCEPT ![t].pc = "done",
                                         ![t].ret = Err("ExecutionError")]
               /\ UNCHANGED inserts
       /\ UNCHANGED <<workers, chainVars, proxyVars>>

\* The caller has its result; the task may call again
CacheReturn(t) ==
    /\ calls[t].pc = "done"
    /\ calls' = [calls EXCEPT ![t] = IdleCall]
    /\ UNCHANGED <<workers, caches, locks, inserts, chainVars, proxyVars>>

InitCache ==
    /\ context = SimpleContext
    /\ InitRuntime
    /\ storage = PopulatedStorage
    /\ active = {}
    /\ InitHandlers
    /\ workers \in WorkerPools
    /\ InitCaches
    /\ InitChains

NextCache ==
    \/ \E t \in Tasks, m \in CodeMaps, a \in AppIds : Call(t, m, a)
    \/ \E t \in Tasks : Lookup(t)
    \/ \E t \in Tasks : Wake(t)
    \/ \E t \in Tasks, o \in {"ok", "err"} : LoadCompletes(t, o)
    \/ \E t \in Tasks : CacheReturn(t)

\* Every call that can take a step is polled, every load terminates, and a
\* thread waiting for a lock shard that is free again and again gets it
CacheFairness ==
    \A t \in Tasks :
        /\ WF_vars(Lookup(t))
        /\ SF_vars(Wake(t))
        /\ WF_vars(\E o \in {"ok", "err"} : LoadCompletes(t, o))
        /\ WF_vars(CacheReturn(t))

SpecCache == InitCache /\ [][NextCache]_vars /\ CacheFairness


\* The key a call is about has an entry / the call has come back with Ok
Cached(c) == caches[c.map][c.app]
ReturnedOk(t) == calls[t].pc = "done" /\ calls[t].ret.tag = "Ok"
ReturnedErr(t) == calls[t].pc = "done" /\ calls[t].ret.tag = "Err"
SameKey(t, u) == calls[t].map = calls[u].map /\ calls[t].app = calls[u].app

\* C23: the code caches are insert-if-absent under every interleaving of
\* get_user_contract (resp. get_user_service) calls: per application id an
\* entry is inserted at most once; an entry, once there, is never replaced or
\* removed; a load is started only for a key without entry, and a call that
\* finds an entry comes back with that entry; every call that returns Ok for
\* an application id returns the one code object the cache holds for it.
C23_InsertIfAbsent ==
    /\ [](\A m \in CodeMaps, a \in AppIds :
            /\ inserts[m][a] <= 1
            /\ (caches[m][a] # NoCode) <=> (inserts[m][a] = 1))
    /\ [][\A m \in CodeMaps, a \in AppIds :
            caches[m][a] # NoCode => caches'[m][a] = caches[m][a]]_vars
    /\ [][\A t \in Tasks :
            /\ calls'[t].pc = "loading" /\ calls[t].pc # "loading"
                => Cached(calls[t]) = NoCode
            /\ (/\ calls[t].pc \in {"entry", "blocked"}
                /\ calls'[t].pc \notin {"entry", "blocked"}
                /\ Cached(calls[t]) # NoCode)
                => (/\ calls'[t].pc = "done"
                    /\ calls'[t].ret = Ok(Cached(calls[t]))
                    /\ UNCHANGED <<caches, inserts>>)]_vars
    /\ [](\A t \in Tasks :
            ReturnedOk(t) => calls[t].ret.value = Cached(calls[t]))
    /\ [](\A t \in Tasks, u \in Tasks :
            ReturnedOk(t) /\ ReturnedOk(u) /\ SameKey(t, u)
                => calls[t].ret = calls[u].ret)

\* Two calls for one application id, made side by side on two worker
\* threads, have both returned the one inserted code object
C23_Witness ==
    /\ workers = NumTasks
    /\ \E t \in Tasks, u \in Tasks :
        /\ t # u
        /\ ReturnedOk(t) /\ ReturnedOk(u) /\ SameKey(t, u)
        /\ inserts[calls[t].map][calls[t].app] = 1
        /\ calls[t].ret.value = <<calls[t].app, 1>>

\* C24: when the load fails inside get_user_contract / get_user_service the
\* call returns the error, the caches are as before (no entry inserted), the
\* lock shard is free again, and a call that gets past the lookup of a key
\* without entry, a later call for the same id included, starts a load.
C24_FailedLoadLeavesNoEntry ==
    /\ [][\A t \in Tasks :
            (calls[t].pc = "loading" /\ calls'[t].pc = "done"
             /\ calls'[t].ret.tag # "Ok")
                => (/\ calls'[t].ret = Err("ExecutionError")
                    /\ UNCHANGED <<caches, inserts>>
                    /\ Cached(calls[t]) = NoCode
                    /\ locks'[LockOf(calls[t])] = NoTask)]_vars
    /\ [][\A t \in Tasks :
            (/\ calls[t].pc \in {"entry", "blocked"}
             /\ calls'[t].pc \notin {"entry", "blocked"}
             /\ Cached(calls[t]) = NoCode)
                => calls'[t].pc = "loading"]_vars

\* A call has come back with the error of its load, nothing is cached for its
\* key, and a later call for the same key is loading again
C24_Witness ==
    \E t \in Tasks, u \in Tasks :
        /\ t # u
        /\ ReturnedErr(t)
        /\ calls[u].pc = "loading"
        /\ SameKey(t, u)
        /\ Cached(calls[t]) = NoCode

\* C25: concurrent cache lookups cannot deadlock: with every load
\* terminating and every call polled whenever it can go on, each call of
\* get_user_contract / get_user_service eventually returns, whatever the
\* number of worker threads.
C25_EveryCallReturns ==
    \A t \in Tasks : (calls[t].pc # "idle") ~> (calls[t].pc = "done")

\* One worker thread: a call awaits its load with the lock shard held, a
\* second call for the same lock shard blocks the thread inside
\* DashMap::entry, and no step of any task is possible any more
C25_Witness ==
    /\ workers = 1
    /\ \E t \in Tasks, u \in Tasks :
        /\ calls[t].pc = "loading"
        /\ calls[u].pc = "blocked"
        /\ LockOf(calls[t]) = LockOf(calls[u])
        /\ locks[LockOf(calls[t])] = t
    /\ ~ENABLED NextCache


----------------------------------------------------------------------------
(* Storage::create_chain *)

\* Two calls of create_chain side by side
Creators == {t \in Tasks : t <= 2}

\* Positions of a create_chain call between its first and its last await
InProgress == {"write_blob", "load_chain", "ensure_is_active", "save"}

\* The other calls of create_chain at work on chain c
Working(t, c) ==
    {u \in Creators \ {t} : creates[u].chain = c /\ creates[u].pc \in InProgress}

\* create_chain without its assertion
AssertNothing(view) == FALSE

\* `assert!(!chain.is_active(), "Attempting to create a chain twice")`:
\* TRUE when the assertion trips
AssertNotActive(view) == view

\* `?` after an await that failed: create_chain returns the error
CreateFails(t) ==
    creates' = [creates EXCEPT ![t].pc = "done", ![t].ret = Err("ChainError")]

\* The task calls create_chain for the description of chain c
CreateChain(t, c) ==
    /\ creates[t].pc = "idle"
    /\ creates' = [creates EXCEPT ![t] = [pc |-> "write_blob", chain |-> c,
                                          view |-> FALSE, ret |-> Pending]]
    /\ overlapped' = IF Working(t, c) # {} THEN overlapped \cup {c} ELSE overlapped
    /\ UNCHANGED <<chains, cacheVars, proxyVars>>

\* self.write_blob(&Blob::new_chain_description(&description)).await?
WriteBlob(t, o) ==
    LET c == creates[t].chain
    IN /\ creates[t].pc = "write_blob"
       /\ IF o = "ok"
          THEN /\ chains' = [chains EXCEPT ![c].blob = TRUE]
               /\ creates' = [creates EXCEPT ![t].pc = "load_chain"]
          ELSE /\ CreateFails(t)
               /\ UNCHANGED chains
       /\ UNCHANGED <<overlapped, cacheVars, proxyVars>>

\* let mut chain = self.load_chain(id).await?: a new ChainStateView of what is
\* stored for the chain at this moment; then the assertion on it
LoadChain(t, o) ==
    LET c == creates[t].chain
        view == chains[c].active
    IN /\ creates[t].pc = "load_chain"
       /\ IF o = "ok"
          THEN creates' = [creates EXCEPT
                              ![t].view = view,
                              ![t].pc = IF AssertNotActive(view) THEN "panicked"
                                        ELSE "ensure_is_active"]
          ELSE CreateFails(t)
       /\ UNCHANGED <<chains, overlapped, cacheVars, proxyVars>>

\* chain.ensure_is_active(current_time).await?: the view becomes active, in
\* memory only
EnsureActive(t, o) ==
    /\ creates[t].pc = "ensure_is_active"
    /\ IF o = "ok"
       THEN creates' = [creates EXCEPT ![t].view = TRUE, ![t].pc = "save"]
       ELSE CreateFails(t)
    /\ UNCHANGED <<chains, overlapped, cacheVars, proxyVars>>

\* chain.save().await?; Ok(()): the view is written to persistent storage
Save(t, o) ==
    LET c == creates[t].chain
    IN /\ creates[t].pc = "save"
       /\ IF o = "ok"
          THEN /\ chains' = [chains EXCEPT ![c].active = creates[t].view,
                                           ![c].saves = @ + 1]
               /\ creates' = [creates EXCEPT ![t].pc = "done", ![t].ret = Ok(None)]
          ELSE /\ CreateFails(t)
               /\ UNCHANGED chains
       /\ UNCHANGED <<overlapped, cacheVars, proxyVars>>

\* The caller has its Result; the task may call again. A call whose assertion
\* tripped has panicked and returns nothing
CreateReturn(t) ==
    /\ creates[t].pc = "done"
    /\ creates' = [creates EXCEPT ![t] = IdleCreate]
    /\ UNCHANGED <<chains, overlapped, cacheVars, proxyVars>>

InitChain ==
    /\ context = SimpleContext
    /\ InitRuntime
    /\ storage = PopulatedStorage
    /\ active = {}
    /\ InitHandlers
    /\ InitLib

NextChain ==
    \/ \E t \in Creators, c \in ChainIds : CreateChain(t, c)
    \/ \E t \in Creators, o \in {"ok", "err"} : WriteBlob(t, o)
    \/ \E t \in Creators, o \in {"ok", "err"} : LoadChain(t, o)
    \/ \E t \in Creators, o \in {"ok", "err"} : EnsureActive(t, o)
    \/ \E t \in Creators, o \in {"ok", "err"} : Save(t, o)
    \/ \E t \in Creators : CreateReturn(t)

SpecChain == InitChain /\ [][NextChain]_vars

\* The call of task t has saved chain c with this step
Saved(t, c) ==
    /\ creates[t].pc = "save" /\ creates[t].chain = c
    /\ creates'[t].pc = "done" /\ creates'[t].ret.tag = "Ok"
    /\ chains'[c].saves = chains[c].saves + 1

\* C26 (as stated): create_chain initializes a chain at most once, also when
\* two create_chain calls for the same description are interleaved: a chain
\* is never saved by more than one call.
C26_AtMostOnce == \A c \in ChainIds : chains[c].saves <= 1

\* C26 (amended): a create_chain call that finds the chain not yet active
\* stores the description blob, makes the chain active and saves it; a call
\* that loads an already active chain trips the assertion and never saves;
\* so a chain is saved at most once as long as no two create_chain calls for
\* it are at work at the same time.
C26_AtMostOnceUnlessInterleaved ==
    /\ [](\A c \in ChainIds :
            /\ chains[c].saves <= 1 \/ c \in overlapped
            /\ chains[c].active <=> chains[c].saves >= 1
            /\ chains[c].active => chains[c].blob)
    /\ [][\A t \in Creators :
            (/\ creates[t].pc = "load_chain" /\ creates'[t].pc # "load_chain"
             /\ chains[creates[t].chain].active)
                => (/\ creates'[t].pc = "panicked" \/ creates'[t].ret.tag = "Err"
                    /\ UNCHANGED chains)]_vars
    /\ [][\A t \in Creators :
            creates[t].pc = "panicked" => creates'[t] = creates[t]]_vars
    /\ [][\A c \in ChainIds :
            chains'[c].saves # chains[c].saves
                => (/\ \E t \in Creators : Saved(t, c)
                    /\ chains'[c].active /\ chains'[c].blob
                    /\ chains[c].active => c \in overlapped)]_vars
    /\ [](\A t \in Creators :
            creates[t].pc = "done" /\ creates[t].ret.tag = "Ok"
                => (/\ chains[creates[t].chain].active
                    /\ chains[creates[t].chain].blob))

\* One call has created the chain and returned Ok, a later call for the same
\* chain has tripped the assertion, and the chain has been saved once
C26_Witness ==
    \E t \in Creators, u \in Creators, c \in ChainIds :
        /\ creates[t].pc = "done" /\ creates[t].ret.tag = "Ok" /\ creates[t].chain = c
        /\ creates[u].pc = "panicked" /\ creates[u].chain = c
        /\ c \notin overlapped
        /\ chains[c] = [blob |-> TRUE, active |-> TRUE, saves |-> 1]

====
